---- MODULE Spec2Model ----
(***************************************************************************)
(* A model of the nomicon crate: the reference-counted pointers Rc and Arc *)
(* (src/rc.rs, src/arc.rs), the borrow-checked cell RefCell (src/cell.rs)  *)
(* and the growable buffer Vec (src/vec.rs, and its older copy in          *)
(* src/lib.rs).  Every handle of a pointer and every borrow token of a     *)
(* cell is an object with a position; the control block's count, the       *)
(* cell's borrow state and the buffer's ptr, cap and len are the fields    *)
(* the code keeps.                                                         *)
(***************************************************************************)
EXTENDS Integers, Sequences, FiniteSets

(* ---------------------------------------------------------------- bounds *)

\* Handles of the Arc beyond the original one (the clones that may exist).
MaxArcClones == 3

\* Handles of the Rc beyond the original one.
MaxRcClones == 3

\* Borrow tokens of the RefCell that may be live at the same time.
MaxTokens == 3

\* Values handed to the Vec by push and insert over its lifetime.
MaxVecValues == 5

(* ------------------------------------------------------------- constants *)

\* usize::MAX.  The counts are usize; TLC's integers are 32 bits wide, so the
\* width is that of the narrowest pointer width Rust has (16 bits).
UsizeMax == 65535

\* The values an Arc may wrap.
Values == {"Hello, World", "other"}

\* The values an Rc may wrap.
RcValues == {"30"}

\* What a read of deallocated memory may yield besides the old contents.
Garbage == "garbage"

\* No observation made yet.
NoObs == "no_obs"

ArcHandles == 0 .. MaxArcClones
RcHandles == 0 .. MaxRcClones

VARIABLES
    arcH,       \* Arc handles: "none" | "live" | in drop: "dec" (count decremented),
                \* "zero" (count read as 0) | "done"
    arcCount,   \* ArcInner.count
    arcValue,   \* ArcInner.value
    arcFrees,   \* how many times drop ran Box::from_raw on the block and dropped it
    arcObs,     \* what each handle's deref() observed
    arcUAF,     \* a handle accessed the block after it was deallocated
    arcSince,   \* for a handle in drop: the values the count has had since the
                \* handle's own decrement, which its Relaxed load may return
    rcH,        \* Rc handles: "none" | "live" | "done"
    rcCount,    \* RcInner.refcount
    rcValue,    \* RcInner.value
    rcLog,      \* the destruction events of the Rc's block, in order
    rcObs,      \* what each handle's deref() observed
    rcPanic,    \* the Rc panicked ("Rc count overflown")
    rcOp,       \* the last method of Rc that was called
    refState,   \* RefCell.state
    cellValue,  \* RefCell.value
    tok,        \* borrow tokens: "free" | "Ref" | "RefMut"
    tokObs,     \* what each token's deref() observed
    cellOp,     \* the RefCell operation that ran last
    cellRet,    \* what it returned: "Some" | "None" | "unit" | a panic message
    vecBuf,     \* the Vec: cap, len, the memory behind ptr (cap slots) and
                \* whether ptr is an allocation (not NonNull::dangling())
    vecStatus,  \* "live" | "dropped" | "aborted" (handle_alloc_error)
    vecNext,    \* the next value handed to push or insert: the k-th one is k
    vecLive,    \* the values handed to the Vec and not yet handed back or dropped
    vecOp,      \* the Vec operation that ran last
    vecArg,     \* its arguments, index and elem
    vecRet,     \* what it returned: kind "unit" | "Some" | "None" | "value" |
                \* a panic message | "abort", and the value
    vecLog      \* what Drop for Vec did, in order

arcVars == <<arcH, arcCount, arcValue, arcFrees, arcObs, arcUAF, arcSince>>
rcVars == <<rcH, rcCount, rcValue, rcLog, rcObs, rcPanic, rcOp>>
cellVars == <<refState, cellValue, tok, tokObs, cellOp, cellRet>>
vecVars == <<vecBuf, vecStatus, vecNext, vecLive, vecOp, vecArg, vecRet, vecLog>>

otherThanArc == <<rcVars, cellVars, vecVars>>
otherThanRc == <<arcVars, cellVars, vecVars>>
otherThanCell == <<arcVars, rcVars, vecVars>>
otherThanVec == <<arcVars, rcVars, cellVars>>

(* ------------------------------------------------------------------- Arc *)

\* ArcInner::new: the count of a fresh block.
ArcInnerNew == 1

\* The increment lost: clone hands out a handle the count does not know of.
ArcInnerIncrementLost(c) == c

\* AtomicUsize::fetch_add(1): wraps on overflow.
ArcInnerIncrement(c) == IF c = UsizeMax THEN 0 ELSE c + 1

\* AtomicUsize::fetch_sub(1): wraps on underflow.
ArcInnerDecrement(c) == IF c = 0 THEN UsizeMax ELSE c - 1

\* Arc::count by a thread that every modification of the count happens
\* before (the only thread, or one that joined the others): the load returns
\* the last value.
ArcCountLoad(c) == c

\* What the handles in drop may load after the count was set to c: a Relaxed
\* load returns the value of the thread's own decrement or any later one.
ArcSinceAdd(c) ==
    [g \in ArcHandles |-> IF arcH[g] = "dec" THEN arcSince[g] \cup {c} ELSE arcSince[g]]

\* Arc::clone by the live handle src: one atomic increment, then the new handle.
ArcClone(src, new) ==
    /\ arcH[src] = "live"
    /\ arcH[new] = "none"
    /\ arcCount' = ArcInnerIncrement(arcCount)
    /\ arcSince' = ArcSinceAdd(arcCount')
    /\ arcH' = [arcH EXCEPT ![new] = "live"]
    /\ arcUAF' = (arcUAF \/ arcFrees > 0)
    /\ UNCHANGED <<arcValue, arcFrees, arcObs>>
    /\ UNCHANGED otherThanArc

\* Arc::increment by a live handle: one atomic fetch_add.
ArcIncrement(h) ==
    /\ arcH[h] = "live"
    /\ arcFrees = 0
    /\ arcCount' = ArcInnerIncrement(arcCount)
    /\ arcSince' = ArcSinceAdd(arcCount')
    /\ UNCHANGED <<arcH, arcValue, arcFrees, arcObs, arcUAF>>
    /\ UNCHANGED otherThanArc

\* Arc::decrement by a live handle: one atomic fetch_sub, and nothing is
\* freed.
ArcDecrement(h) ==
    /\ arcH[h] = "live"
    /\ arcFrees = 0
    /\ arcCount' = ArcInnerDecrement(arcCount)
    /\ arcSince' = ArcSinceAdd(arcCount')
    /\ UNCHANGED <<arcH, arcValue, arcFrees, arcObs, arcUAF>>
    /\ UNCHANGED otherThanArc

\* Arc::deref by a live handle: a read of the value.
ArcDeref(h) ==
    /\ arcH[h] = "live"
    /\ arcObs' = [arcObs EXCEPT ![h] = IF arcFrees = 0 THEN arcValue ELSE Garbage]
    /\ arcUAF' = (arcUAF \/ arcFrees > 0)
    /\ UNCHANGED <<arcH, arcCount, arcValue, arcFrees, arcSince>>
    /\ UNCHANGED otherThanArc

\* Arc::drop, first step: self.decrement(), one atomic fetch_sub.
ArcDropDecrement(h) ==
    /\ arcH[h] = "live"
    /\ arcCount' = ArcInnerDecrement(arcCount)
    /\ arcSince' = [ArcSinceAdd(arcCount') EXCEPT ![h] = {arcCount'}]
    /\ arcH' = [arcH EXCEPT ![h] = "dec"]
    /\ arcUAF' = (arcUAF \/ arcFrees > 0)
    /\ UNCHANGED <<arcValue, arcFrees, arcObs>>
    /\ UNCHANGED otherThanArc

\* What the re-read of the count in h's drop may return: while the block is
\* allocated, a value the count has had since h's decrement; anything once it
\* was deallocated (a read of freed memory), of which only "zero or not"
\* matters to drop.
ArcDropReads(h) == IF arcFrees = 0 THEN arcSince[h] ELSE {0, 1}

\* Arc::drop, second step: the test self.count() == 0, one atomic load.
ArcDropCount(h) ==
    /\ arcH[h] = "dec"
    /\ \E c \in ArcDropReads(h) :
           arcH' = [arcH EXCEPT ![h] = IF c = 0 THEN "zero" ELSE "done"]
    /\ arcSince' = [arcSince EXCEPT ![h] = {}]
    /\ arcUAF' = (arcUAF \/ arcFrees > 0)
    /\ UNCHANGED <<arcCount, arcValue, arcFrees, arcObs>>
    /\ UNCHANGED otherThanArc

\* Arc::drop, third step, taken after a load of 0: drop(Box::from_raw(..)),
\* which destroys the value and deallocates the block.
ArcDropFree(h) ==
    /\ arcH[h] = "zero"
    /\ arcFrees' = arcFrees + 1
    /\ arcH' = [arcH EXCEPT ![h] = "done"]
    /\ arcUAF' = (arcUAF \/ arcFrees > 0)
    /\ UNCHANGED <<arcCount, arcValue, arcObs, arcSince>>
    /\ UNCHANGED otherThanArc

\* Arc::drop run by the only thread there is: its steps with nothing between.
ArcDropSeq(h) ==
    /\ arcH[h] = "live"
    /\ \A g \in ArcHandles : arcH[g] \notin {"dec", "zero"}
    /\ arcCount' = ArcInnerDecrement(arcCount)
    /\ arcFrees' = IF ArcCountLoad(arcCount') = 0 THEN arcFrees + 1 ELSE arcFrees
    /\ arcH' = [arcH EXCEPT ![h] = "done"]
    /\ arcUAF' = (arcUAF \/ arcFrees > 0)
    /\ UNCHANGED <<arcValue, arcObs, arcSince>>
    /\ UNCHANGED otherThanArc

ArcInit ==
    /\ arcH = [h \in ArcHandles |-> IF h = 0 THEN "live" ELSE "none"]
    /\ arcCount = ArcInnerNew
    /\ arcValue \in Values
    /\ arcFrees = 0
    /\ arcObs = [h \in ArcHandles |-> NoObs]
    /\ arcUAF = FALSE
    /\ arcSince = [h \in ArcHandles |-> {}]

\* The methods of Arc that move the count, called on the handle Arc::new
\* returned, and clone.
ArcCountNext ==
    \/ ArcIncrement(0)
    \/ ArcDecrement(0)
    \/ \E new \in ArcHandles : ArcClone(0, new)

\* Handles used by concurrent threads.
ArcNext ==
    \/ \E src, new \in ArcHandles : ArcClone(src, new)
    \/ \E h \in ArcHandles : ArcDeref(h)
    \/ \E h \in ArcHandles : ArcDropDecrement(h)
    \/ \E h \in ArcHandles : ArcDropCount(h)
    \/ \E h \in ArcHandles : ArcDropFree(h)

(* -------------------------------------------------------------------- Rc *)

\* RcInner::new: the refcount of a fresh block.
RcInnerNew == 1

\* The increment lost: set_count is given the old count.
RcInnerIncrementLost(c) == [panic |-> FALSE, count |-> c]

\* wrapping_add(1) in the place of checked_add(1).
RcInnerIncrementWraps(c) ==
    [panic |-> FALSE, count |-> IF c = UsizeMax THEN 0 ELSE c + 1]

\* RcInner::increment: checked_add(1), a panic on None.
RcInnerIncrement(c) ==
    IF c = UsizeMax THEN [panic |-> TRUE, count |-> c]
                    ELSE [panic |-> FALSE, count |-> c + 1]

\* The decrement lost: set_count is given the old count.
RcInnerDecrementLost(c) == [panic |-> FALSE, count |-> c]

\* RcInner::decrement: checked_sub(1), a panic on None.
RcInnerDecrement(c) ==
    IF c = 0 THEN [panic |-> TRUE, count |-> c]
             ELSE [panic |-> FALSE, count |-> c - 1]

\* drop(Box::from_raw(inner)): the value is dropped, then the block released.
RcFree == <<"drop_value", "dealloc">>

\* Rc::clone by the live handle src.
RcClone(src, new) ==
    /\ ~rcPanic
    /\ rcH[src] = "live"
    /\ rcH[new] = "none"
    /\ LET r == RcInnerIncrement(rcCount) IN
         /\ rcCount' = r.count
         /\ rcPanic' = r.panic
         /\ rcH' = IF r.panic THEN rcH ELSE [rcH EXCEPT ![new] = "live"]
    /\ rcOp' = "clone"
    /\ UNCHANGED <<rcValue, rcLog, rcObs>>
    /\ UNCHANGED otherThanRc

\* Rc::deref by a live handle: a read of the value.
RcDeref(h) ==
    /\ ~rcPanic
    /\ rcH[h] = "live"
    /\ rcObs' = [rcObs EXCEPT ![h] = IF rcLog = <<>> THEN rcValue ELSE Garbage]
    /\ rcOp' = "deref"
    /\ UNCHANGED <<rcH, rcCount, rcValue, rcLog, rcPanic>>
    /\ UNCHANGED otherThanRc

\* Rc::drop: decrement, then free the block if the count is 0.
RcDrop(h) ==
    /\ ~rcPanic
    /\ rcH[h] = "live"
    /\ LET r == RcInnerDecrement(rcCount) IN
         /\ rcCount' = r.count
         /\ rcPanic' = r.panic
         /\ rcLog' = IF ~r.panic /\ r.count = 0 THEN rcLog \o RcFree ELSE rcLog
    /\ rcH' = [rcH EXCEPT ![h] = "done"]
    /\ rcOp' = "drop"
    /\ UNCHANGED <<rcValue, rcObs>>
    /\ UNCHANGED otherThanRc

\* Rc::increment by a live handle: the count of the block goes up by one.
RcIncrement(h) ==
    /\ ~rcPanic
    /\ rcH[h] = "live"
    /\ rcLog = <<>>
    /\ LET r == RcInnerIncrement(rcCount) IN
         /\ rcCount' = r.count
         /\ rcPanic' = r.panic
    /\ rcOp' = "increment"
    /\ UNCHANGED <<rcH, rcValue, rcLog, rcObs>>
    /\ UNCHANGED otherThanRc

\* Rc::decrement by a live handle: the count of the block goes down by one,
\* and nothing is freed.
RcDecrement(h) ==
    /\ ~rcPanic
    /\ rcH[h] = "live"
    /\ rcLog = <<>>
    /\ LET r == RcInnerDecrement(rcCount) IN
         /\ rcCount' = r.count
         /\ rcPanic' = r.panic
    /\ rcOp' = "decrement"
    /\ UNCHANGED <<rcH, rcValue, rcLog, rcObs>>
    /\ UNCHANGED otherThanRc

RcInit ==
    /\ rcH = [h \in RcHandles |-> IF h = 0 THEN "live" ELSE "none"]
    /\ rcCount = RcInnerNew
    /\ rcValue \in RcValues
    /\ rcLog = <<>>
    /\ rcObs = [h \in RcHandles |-> NoObs]
    /\ rcPanic = FALSE
    /\ rcOp = "new"

RcNext ==
    \/ \E src, new \in RcHandles : RcClone(src, new)
    \/ \E h \in RcHandles : RcDeref(h)
    \/ \E h \in RcHandles : RcDrop(h)

\* The methods of Rc that move the count, called on the handle Rc::new
\* returned, and clone.
RcCountNext ==
    \/ RcIncrement(0)
    \/ RcDecrement(0)
    \/ \E new \in RcHandles : RcClone(0, new)

(* --------------------------------------------------------------- RefCell *)

\* enum RefState.
Unshared == [tag |-> "Unshared", n |-> 0]
Exclusive == [tag |-> "Exclusive", n |-> 0]
Shared(n) == [tag |-> "Shared", n |-> n]

\* usize + 1 and usize - 1 in a match arm: with overflow checks the operation
\* panics, without them it wraps.
UsizeAdd1(c, checks) ==
    IF c = UsizeMax THEN [panic |-> checks, val |-> 0]
                    ELSE [panic |-> FALSE, val |-> c + 1]

UsizeSub1(c, checks) ==
    IF c = 0 THEN [panic |-> checks, val |-> UsizeMax]
             ELSE [panic |-> FALSE, val |-> c - 1]

PanicOverflow == "attempt to add with overflow"
PanicUnderflow == "attempt to subtract with overflow"
PanicUnreachable == "internal error: entered unreachable code"
PanicBorrowMut == "Already borrowed"
PanicBorrow == "Already exclusively borrowed"

\* The Exclusive arm taken for the Unshared one: a read token granted while a
\* write token is live.
TryBorrowStateNoExclusive(s, checks) ==
    IF s.tag \in {"Unshared", "Exclusive"} THEN [state |-> Shared(1), ret |-> "Some"]
    ELSE [state |-> Shared(s.n + 1), ret |-> "Some"]

\* RefCell::try_borrow on state s: the state it stores and what it returns.
TryBorrowState(s, checks) ==
    IF s.tag = "Unshared" THEN [state |-> Shared(1), ret |-> "Some"]
    ELSE IF s.tag = "Exclusive" THEN [state |-> s, ret |-> "None"]
    ELSE LET a == UsizeAdd1(s.n, checks) IN
         IF a.panic THEN [state |-> s, ret |-> PanicOverflow]
                    ELSE [state |-> Shared(a.val), ret |-> "Some"]

\* The match on the state dropped: a write token granted whatever is live.
TryBorrowMutStateNoCheck(s) == [state |-> Exclusive, ret |-> "Some"]

\* RefCell::try_borrow_mut on state s.
TryBorrowMutState(s) ==
    IF s.tag = "Unshared" THEN [state |-> Exclusive, ret |-> "Some"]
                          ELSE [state |-> s, ret |-> "None"]

\* RefCell::borrow on state s: try_borrow, a panic on None.
BorrowState(s, checks) ==
    LET r == TryBorrowState(s, checks) IN
    IF r.ret = "None" THEN [state |-> r.state, ret |-> PanicBorrow] ELSE r

\* The None arm without its panic: the caller is handed nothing.
BorrowMutStateNoPanic(s) == TryBorrowMutState(s)

\* RefCell::borrow_mut on state s: try_borrow_mut, a panic on None.
BorrowMutState(s) ==
    LET r == TryBorrowMutState(s) IN
    IF r.ret = "None" THEN [state |-> r.state, ret |-> PanicBorrowMut] ELSE r

\* The Shared(1) arm missing: the last reader leaves Shared(0) behind.
RefDropStateNoUnshare(s, checks) ==
    IF s.tag \in {"Unshared", "Exclusive"} THEN [state |-> s, ret |-> PanicUnreachable]
    ELSE [state |-> Shared(s.n - 1), ret |-> "unit"]

\* Drop for Ref on state s.
RefDropState(s, checks) ==
    IF s.tag \in {"Unshared", "Exclusive"} THEN [state |-> s, ret |-> PanicUnreachable]
    ELSE IF s.n = 1 THEN [state |-> Unshared, ret |-> "unit"]
    ELSE LET d == UsizeSub1(s.n, checks) IN
         IF d.panic THEN [state |-> s, ret |-> PanicUnderflow]
                    ELSE [state |-> Shared(d.val), ret |-> "unit"]

\* The state left as it was: the write token goes without giving it back.
RefMutDropStateKeeps(s) == [state |-> s, ret |-> "unit"]

\* Drop for RefMut.
RefMutDropState(s) == [state |-> Unshared, ret |-> "unit"]

Tokens == 1 .. MaxTokens

\* No read made yet through a token.
CellNoObs == <<>>

\* The token tables after an operation that returned ret: on Some one free
\* token has become a token of the given kind.
Granted(kind, ret) ==
    IF ret = "Some"
    THEN {[tok EXCEPT ![t] = kind] : t \in {u \in Tokens : tok[u] = "free"}}
    ELSE {tok}

\* RefCell::try_borrow.
TryBorrow ==
    \E checks \in BOOLEAN :
      LET r == TryBorrowState(refState, checks) IN
        /\ refState' = r.state
        /\ cellOp' = "try_borrow"
        /\ cellRet' = r.ret
        /\ tok' \in Granted("Ref", r.ret)
        /\ UNCHANGED <<cellValue, tokObs>>
        /\ UNCHANGED otherThanCell

\* RefCell::borrow.
Borrow ==
    \E checks \in BOOLEAN :
      LET r == BorrowState(refState, checks) IN
        /\ refState' = r.state
        /\ cellOp' = "borrow"
        /\ cellRet' = r.ret
        /\ tok' \in Granted("Ref", r.ret)
        /\ UNCHANGED <<cellValue, tokObs>>
        /\ UNCHANGED otherThanCell

\* RefCell::try_borrow_mut.
TryBorrowMut ==
    LET r == TryBorrowMutState(refState) IN
      /\ refState' = r.state
      /\ cellOp' = "try_borrow_mut"
      /\ cellRet' = r.ret
      /\ tok' \in Granted("RefMut", r.ret)
      /\ UNCHANGED <<cellValue, tokObs>>
      /\ UNCHANGED otherThanCell

\* RefCell::borrow_mut.
BorrowMut ==
    LET r == BorrowMutState(refState) IN
      /\ refState' = r.state
      /\ cellOp' = "borrow_mut"
      /\ cellRet' = r.ret
      /\ tok' \in Granted("RefMut", r.ret)
      /\ UNCHANGED <<cellValue, tokObs>>
      /\ UNCHANGED otherThanCell

\* Deref for Ref: a read of the value.
RefDeref(t) ==
    /\ tok[t] = "Ref"
    /\ tokObs' = [tokObs EXCEPT ![t] = cellValue]
    /\ cellOp' = "deref"
    /\ cellRet' = "unit"
    /\ UNCHANGED <<refState, cellValue, tok>>
    /\ UNCHANGED otherThanCell

\* Deref for RefMut: a read of the value.
RefMutDeref(t) ==
    /\ tok[t] = "RefMut"
    /\ tokObs' = [tokObs EXCEPT ![t] = cellValue]
    /\ cellOp' = "deref"
    /\ cellRet' = "unit"
    /\ UNCHANGED <<refState, cellValue, tok>>
    /\ UNCHANGED otherThanCell

\* DerefMut for RefMut, used as in the doctest: exclusive[i] = v.
RefMutDerefMut(t, i, v) ==
    /\ tok[t] = "RefMut"
    /\ cellValue' = [cellValue EXCEPT ![i] = v]
    /\ cellOp' = "deref_mut"
    /\ cellRet' = "unit"
    /\ UNCHANGED <<refState, tok, tokObs>>
    /\ UNCHANGED otherThanCell

\* Drop for Ref.
RefDrop(t) ==
    /\ tok[t] = "Ref"
    /\ \E checks \in BOOLEAN :
         LET r == RefDropState(refState, checks) IN
           /\ refState' = r.state
           /\ cellRet' = r.ret
    /\ tok' = [tok EXCEPT ![t] = "free"]
    /\ tokObs' = [tokObs EXCEPT ![t] = CellNoObs]
    /\ cellOp' = "drop_ref"
    /\ UNCHANGED cellValue
    /\ UNCHANGED otherThanCell

\* Drop for RefMut.
RefMutDrop(t) ==
    /\ tok[t] = "RefMut"
    /\ LET r == RefMutDropState(refState) IN
           /\ refState' = r.state
           /\ cellRet' = r.ret
    /\ tok' = [tok EXCEPT ![t] = "free"]
    /\ tokObs' = [tokObs EXCEPT ![t] = CellNoObs]
    /\ cellOp' = "drop_ref_mut"
    /\ UNCHANGED cellValue
    /\ UNCHANGED otherThanCell

\* The array of the doctests, RefCell::new([1, 2, 3]), and what is written to it.
CellLen == 3
CellNew == <<1, 2, 3>>
CellWrites == {1, 5}

\* RefCell::new(value).
CellInit ==
    /\ refState = Unshared
    /\ cellValue = CellNew
    /\ tok = [t \in Tokens |-> "free"]
    /\ tokObs = [t \in Tokens |-> CellNoObs]
    /\ cellOp = "new"
    /\ cellRet = "unit"

CellNext ==
    \/ TryBorrow
    \/ Borrow
    \/ TryBorrowMut
    \/ BorrowMut
    \/ \E t \in Tokens : RefDeref(t)
    \/ \E t \in Tokens : RefMutDeref(t)
    \/ \E t \in Tokens, i \in 1 .. CellLen, v \in CellWrites : RefMutDerefMut(t, i, v)
    \/ \E t \in Tokens : RefDrop(t)
    \/ \E t \in Tokens : RefMutDrop(t)

(* ------------------------------------------------------------------- Vec *)

\* A slot of the allocation that was never written.
Uninit == 0

\* isize::MAX, for the width of UsizeMax.
IsizeMax == 32767

\* mem::size_of::<T>() for the u8 of the tests.
ElemSize == 1

PanicIndex == "index out of bounds"
PanicLayout == "not overflown"
PanicTooLarge == "allocation too large"

\* What an operation hands back: its kind and, with it, a value.
Ret(kind, val) == [kind |-> kind, val |-> val]

\* n slots never written.
UninitSlots(n) == [k \in 1 .. n |-> Uninit]

\* Vec::new: no allocation, cap 0, len 0.
VecNew == [cap |-> 0, len |-> 0, mem |-> <<>>, alloc |-> FALSE]

\* ptr::copy(ptr.add(src), ptr.add(dst), count): count slots moved as by
\* memmove, the regions overlapping or not.  mem[k + 1] is the slot ptr.add(k).
PtrCopy(mem, src, dst, count) ==
    [k \in 1 .. Len(mem) |->
        IF k - 1 >= dst /\ k - 1 < dst + count THEN mem[(k - 1 - dst) + src + 1]
                                               ELSE mem[k]]

\* The capacity grown by one slot and not doubled.
VecGrowByOne(b, ok) ==
    IF ~ok THEN [buf |-> b, ret |-> Ret("abort", Uninit)]
    ELSE [buf |-> [b EXCEPT !.cap = b.cap + 1,
                            !.mem = b.mem \o UninitSlots(1),
                            !.alloc = TRUE],
          ret |-> Ret("unit", Uninit)]

\* Vec::grow on buffer b, the allocator answering with memory (ok) or null.
\* Layout::array is an Err for more than isize::MAX bytes, so that the
\* expect panics before the assert on the size is reached.
VecGrow(b, ok) ==
    LET new_cap == IF b.cap = 0 THEN 1 ELSE b.cap * 2
        size == new_cap * ElemSize IN
    IF size > IsizeMax THEN [buf |-> b, ret |-> Ret(PanicLayout, Uninit)]
    ELSE IF ~(size <= IsizeMax) THEN [buf |-> b, ret |-> Ret(PanicTooLarge, Uninit)]
    ELSE IF ~ok THEN [buf |-> b, ret |-> Ret("abort", Uninit)]
    ELSE [buf |-> [b EXCEPT !.cap = new_cap,
                            !.mem = b.mem \o UninitSlots(new_cap - b.cap),
                            !.alloc = TRUE],
          ret |-> Ret("unit", Uninit)]

\* The growth not guarded by len == cap: every push reallocates.
VecPushStateGrowAlways(b, elem, ok) ==
    LET g == VecGrow(b, ok) IN
    IF g.ret.kind # "unit" THEN g
    ELSE [buf |-> [g.buf EXCEPT !.mem[g.buf.len + 1] = elem, !.len = g.buf.len + 1],
          ret |-> Ret("unit", Uninit)]

\* Vec::push of elem on buffer b.
VecPushState(b, elem, ok) ==
    LET g == IF b.len = b.cap THEN VecGrow(b, ok)
                              ELSE [buf |-> b, ret |-> Ret("unit", Uninit)] IN
    IF g.ret.kind # "unit" THEN g
    ELSE [buf |-> [g.buf EXCEPT !.mem[g.buf.len + 1] = elem, !.len = g.buf.len + 1],
          ret |-> Ret("unit", Uninit)]

\* The read at the front: ptr::read(ptr) for ptr::read(ptr.add(len)).
VecPopStateFront(b) ==
    IF b.len = 0 THEN [buf |-> b, ret |-> Ret("None", Uninit)]
    ELSE [buf |-> [b EXCEPT !.len = b.len - 1], ret |-> Ret("Some", b.mem[1])]

\* Vec::pop on buffer b.
VecPopState(b) ==
    IF b.len = 0 THEN [buf |-> b, ret |-> Ret("None", Uninit)]
    ELSE [buf |-> [b EXCEPT !.len = b.len - 1],
          ret |-> Ret("Some", b.mem[(b.len - 1) + 1])]

\* The assert after the growth: a full buffer grows before the index is
\* found out of bounds.
VecInsertStateGrowFirst(b, index, elem, ok) ==
    LET g == IF b.cap = b.len THEN VecGrow(b, ok)
                              ELSE [buf |-> b, ret |-> Ret("unit", Uninit)] IN
    IF g.ret.kind # "unit" THEN g
    ELSE IF ~(index <= b.len) THEN [buf |-> g.buf, ret |-> Ret(PanicIndex, Uninit)]
    ELSE LET moved == PtrCopy(g.buf.mem, index, index + 1, g.buf.len - index) IN
         [buf |-> [g.buf EXCEPT !.mem = [moved EXCEPT ![index + 1] = elem],
                                !.len = g.buf.len + 1],
          ret |-> Ret("unit", Uninit)]

\* The shift one element short: ptr::copy of len - index - 1 elements.
VecInsertStateShortShift(b, index, elem, ok) ==
    IF ~(index <= b.len) THEN [buf |-> b, ret |-> Ret(PanicIndex, Uninit)]
    ELSE
    LET g == IF b.cap = b.len THEN VecGrow(b, ok)
                              ELSE [buf |-> b, ret |-> Ret("unit", Uninit)] IN
    IF g.ret.kind # "unit" THEN g
    ELSE LET n == IF g.buf.len - index > 0 THEN g.buf.len - index - 1 ELSE 0
             moved == PtrCopy(g.buf.mem, index, index + 1, n) IN
         [buf |-> [g.buf EXCEPT !.mem = [moved EXCEPT ![index + 1] = elem],
                                !.len = g.buf.len + 1],
          ret |-> Ret("unit", Uninit)]

\* Vec::insert of elem at index on buffer b.
VecInsertState(b, index, elem, ok) ==
    IF ~(index <= b.len) THEN [buf |-> b, ret |-> Ret(PanicIndex, Uninit)]
    ELSE
    LET g == IF b.cap = b.len THEN VecGrow(b, ok)
                              ELSE [buf |-> b, ret |-> Ret("unit", Uninit)] IN
    IF g.ret.kind # "unit" THEN g
    ELSE LET moved == PtrCopy(g.buf.mem, index, index + 1, g.buf.len - index) IN
         [buf |-> [g.buf EXCEPT !.mem = [moved EXCEPT ![index + 1] = elem],
                                !.len = g.buf.len + 1],
          ret |-> Ret("unit", Uninit)]

\* The shift left out: the element is read and len decremented.
VecRemoveStateNoShift(b, index) ==
    IF ~(index < b.len) THEN [buf |-> b, ret |-> Ret(PanicIndex, Uninit)]
    ELSE [buf |-> [b EXCEPT !.len = b.len - 1], ret |-> Ret("value", b.mem[index + 1])]

\* Vec::remove at index on buffer b.
VecRemoveState(b, index) ==
    IF ~(index < b.len) THEN [buf |-> b, ret |-> Ret(PanicIndex, Uninit)]
    ELSE LET len == b.len - 1 IN
         [buf |-> [b EXCEPT !.len = len,
                            !.mem = PtrCopy(b.mem, index + 1, index, len - index)],
          ret |-> Ret("value", b.mem[index + 1])]

\* Deref and DerefMut for Vec: slice::from_raw_parts(ptr, len).
VecView(b) == SubSeq(b.mem, 1, b.len)

\* The values dropped from index 0 up, as a loop over the slice would.
VecDropLogIndexOrder(b) ==
    IF b.cap # 0
    THEN [k \in 1 .. b.len |-> <<"drop", b.mem[k]>>] \o << <<"dealloc", b.cap>> >>
    ELSE <<>>

\* The allocation released with the values still in it: no pop loop.
VecDropLogNoElems(b) ==
    IF b.cap # 0 THEN << <<"dealloc", b.cap>> >> ELSE <<>>

\* Drop for Vec on buffer b: what it does, in order.  Each value that
\* `while self.pop().is_some() {}` pops is dropped at once; then the dealloc.
VecDropLog(b) ==
    IF b.cap # 0
    THEN [k \in 1 .. b.len |-> <<"drop", b.mem[(b.len - k) + 1]>>]
             \o << <<"dealloc", b.cap>> >>
    ELSE <<>>

\* Drop for Vec on buffer b: the buffer it leaves.
VecDropState(b) ==
    IF b.cap # 0 THEN [b EXCEPT !.len = 0, !.alloc = FALSE] ELSE b

\* The values push and insert may be handed now.
VecElems == IF vecNext <= MaxVecValues THEN {vecNext} ELSE {}

\* The indices insert and remove are called with: those within the buffer and
\* the first two beyond its last element.
VecIndices == 0 .. vecBuf.len + 1

\* The variables after an operation op(index, elem) with outcome r that took
\* the values `into` the buffer and handed the values `out` back.
VecDone(op, index, elem, r, into, out) ==
    /\ vecOp' = op
    /\ vecArg' = [index |-> index, elem |-> elem]
    /\ vecRet' = r.ret
    /\ vecBuf' = r.buf
    /\ vecStatus' = IF r.ret.kind = "abort" THEN "aborted" ELSE vecStatus
    /\ vecNext' = IF into = {} THEN vecNext ELSE vecNext + 1
    /\ vecLive' = (vecLive \cup into) \ out
    /\ UNCHANGED vecLog
    /\ UNCHANGED otherThanVec

\* Vec::push.
VecPush ==
    /\ vecStatus = "live"
    /\ \E elem \in VecElems, ok \in BOOLEAN :
         LET r == VecPushState(vecBuf, elem, ok) IN
           VecDone("push", 0, elem, r, IF r.ret.kind = "unit" THEN {elem} ELSE {}, {})

\* Vec::pop.
VecPop ==
    /\ vecStatus = "live"
    /\ LET r == VecPopState(vecBuf) IN
         VecDone("pop", 0, Uninit, r, {}, IF r.ret.kind = "Some" THEN {r.ret.val} ELSE {})

\* Vec::insert.
VecInsert ==
    /\ vecStatus = "live"
    /\ \E index \in VecIndices, elem \in VecElems, ok \in BOOLEAN :
         LET r == VecInsertState(vecBuf, index, elem, ok) IN
           VecDone("insert", index, elem, r, IF r.ret.kind = "unit" THEN {elem} ELSE {}, {})

\* Vec::remove.
VecRemove ==
    /\ vecStatus = "live"
    /\ \E index \in VecIndices :
         LET r == VecRemoveState(vecBuf, index) IN
           VecDone("remove", index, Uninit, r, {},
                   IF r.ret.kind = "value" THEN {r.ret.val} ELSE {})

\* Drop for Vec.
VecDrop ==
    /\ vecStatus = "live"
    /\ vecLog' = VecDropLog(vecBuf)
    /\ vecBuf' = VecDropState(vecBuf)
    /\ vecStatus' = "dropped"
    /\ vecOp' = "drop"
    /\ vecArg' = [index |-> 0, elem |-> Uninit]
    /\ vecRet' = Ret("unit", Uninit)
    /\ vecLive' = vecLive \ {vecLog'[k][2] : k \in {j \in 1 .. Len(vecLog') : vecLog'[j][1] = "drop"}}
    /\ UNCHANGED vecNext
    /\ UNCHANGED otherThanVec

\* let mut v = Vec::<u8>::new().
VecInit ==
    /\ vecBuf = VecNew
    /\ vecStatus = "live"
    /\ vecNext = 1
    /\ vecLive = {}
    /\ vecOp = "new"
    /\ vecArg = [index |-> 0, elem |-> Uninit]
    /\ vecRet = Ret("unit", Uninit)
    /\ vecLog = <<>>

VecNext ==
    \/ VecPush
    \/ VecPop
    \/ VecInsert
    \/ VecRemove
    \/ VecDrop

\* A Vec used as a stack.
StackNext ==
    \/ VecPush
    \/ VecPop

(* -------------------------------------------------------- specifications *)

vars == <<arcVars, rcVars, cellVars, vecVars>>

Init == ArcInit /\ RcInit /\ CellInit /\ VecInit

\* The Arc, its handles owned by concurrent threads.
SpecArc == Init /\ [][ArcNext]_vars

\* The Rc.
SpecRc == Init /\ [][RcNext]_vars

\* Both pointers used from one thread.
SeqNext ==
    \/ \E src, new \in RcHandles : RcClone(src, new)
    \/ \E h \in RcHandles : RcDrop(h)
    \/ \E src, new \in ArcHandles : ArcClone(src, new)
    \/ \E h \in ArcHandles : ArcDropSeq(h)

SpecSeq == Init /\ [][SeqNext]_vars

\* The RefCell.
SpecCell == Init /\ [][CellNext]_vars

\* The Vec.
SpecArcCount == Init /\ [][ArcCountNext]_vars

SpecRcCount == Init /\ [][RcCountNext]_vars

SpecVec == Init /\ [][VecNext]_vars

\* The Vec, pushed to and popped from only.
SpecStack == Init /\ [][StackNext]_vars

(* ---------------------------------------------------------------- claims *)

ArcLive == {h \in ArcHandles : arcH[h] = "live"}
RcLive == {h \in RcHandles : rcH[h] = "live"}
ArcClones == ArcHandles \ {0}

\* C1: in every interleaving of concurrent clones and drops of an Arc the
\* control block is deallocated (and the value destroyed) at most once: no
\* second dropping handle observes 0 on its re-read and frees again.
ArcFreedAtMostOnce == arcFrees <= 1

\* C2: while the original handle of an Arc is kept alive, the threads that
\* own its clones read the original value and never free the block, and once
\* all of them have dropped their clone the count is exactly 1.
ArcThreadsLeaveOne ==
    arcH[0] = "live" =>
        /\ arcFrees = 0
        /\ ~arcUAF
        /\ \A h \in ArcHandles : arcObs[h] \in {NoObs, arcValue}
        /\ (\A h \in ArcClones : arcH[h] \in {"none", "done"}) => arcCount = 1

\* C2, its case: every thread has read through its clone and dropped it, and
\* the original handle is still alive.
ArcThreadsJoined ==
    /\ arcH[0] = "live"
    /\ \A h \in ArcClones : arcH[h] = "done" /\ arcObs[h] = arcValue

\* C3: for a pointer used from one thread, while a handle is alive count()
\* is the number of live handles, which is 1 + clones made - handles dropped.
SeqCountIsLiveHandles ==
    /\ RcLive # {} =>
         /\ rcCount = Cardinality(RcLive)
         /\ rcCount = 1 + Cardinality({h \in RcHandles \ {0} : rcH[h] # "none"})
                        - Cardinality({h \in RcHandles : rcH[h] = "done"})
    /\ ArcLive # {} =>
         /\ ArcCountLoad(arcCount) = Cardinality(ArcLive)
         /\ arcCount = 1 + Cardinality({h \in ArcClones : arcH[h] # "none"})
                         - Cardinality({h \in ArcHandles : arcH[h] = "done"})

\* C3, its case: the Rc was cloned as often as the bound allows and all but
\* one handle were dropped (count 1 again); the Arc was cloned as often and
\* all its handles are alive (count k + 1).
SeqCountedUpAndDown ==
    /\ Cardinality(RcLive) = 1
    /\ \A h \in RcHandles : rcH[h] # "none"
    /\ rcCount = 1
    /\ ArcLive = ArcHandles
    /\ arcCount = MaxArcClones + 1

\* C4, in every state: while a handle of the Rc exists the count is at least
\* 1 and the block is not deallocated; the block is deallocated at most once,
\* the value destroyed first; once no handle is left it has been deallocated.
RcBlockState ==
    /\ rcLog \in {<<>>, RcFree}
    /\ RcLive # {} => rcCount >= 1 /\ rcLog = <<>>
    /\ RcLive = {} => rcLog = RcFree

\* C4, in every step: the block is deallocated by the drop that takes the
\* count from 1 to 0, and by no other step.
RcFreedByLastDrop ==
    (rcLog' # rcLog) <=> (rcCount = 1 /\ rcCount' = 0)

\* C4: the Rc's block lives as long as a handle does and is deallocated
\* exactly once, by the drop that takes the count from 1 to 0.
RcFreedExactlyOnce == [](RcBlockState) /\ [][RcFreedByLastDrop]_vars

\* C4, its case: handles were cloned and every one of them dropped; the last
\* drop took the count to 0 and freed the block.
RcAllDropped ==
    /\ \A h \in RcHandles : rcH[h] = "done"
    /\ rcCount = 0
    /\ rcLog = RcFree

Readers == {t \in Tokens : tok[t] = "Ref"}
Writers == {t \in Tokens : tok[t] = "RefMut"}

\* The step hands out exactly one new token of the given kind.
OneNewToken(kind) ==
    \E t \in Tokens : tok[t] = "free" /\ tok' = [tok EXCEPT ![t] = kind]

\* C5: at most one write token of a RefCell is live, and no read token is
\* live while a write token is; read tokens may be live together.
CellExclusion ==
    /\ Cardinality(Writers) <= 1
    /\ Writers # {} => Readers = {}

\* C5, its case: two read tokens are live together and a borrow_mut() made
\* meanwhile was refused.
CellReadersKeepWriterOut ==
    /\ Cardinality(Readers) >= 2
    /\ cellOp = "borrow_mut"
    /\ cellRet = PanicBorrowMut

\* C6: try_borrow() from Unshared stores Shared(1) and returns a read token,
\* from Shared(n) stores Shared(n + 1) and returns a read token, from
\* Exclusive returns None, grants no token and leaves the state as it was.
TryBorrowContract ==
    [][cellOp' = "try_borrow" =>
         /\ refState = Unshared =>
              refState' = Shared(1) /\ cellRet' = "Some" /\ OneNewToken("Ref")
         /\ refState.tag = "Shared" =>
              /\ refState' = Shared(refState.n + 1)
              /\ cellRet' = "Some"
              /\ OneNewToken("Ref")
         /\ refState = Exclusive =>
              refState' = Exclusive /\ cellRet' = "None" /\ tok' = tok]_vars

\* C6, its case: try_borrow() was called while a write token is live and
\* returned None.
TryBorrowRefused ==
    /\ cellOp = "try_borrow"
    /\ cellRet = "None"
    /\ refState = Exclusive
    /\ Writers # {}

\* C7: try_borrow_mut() from Unshared stores Exclusive and returns a write
\* token; from Exclusive or Shared(n) it returns None, grants no token and
\* leaves the state, the shared count n included, and the live tokens as
\* they were.
TryBorrowMutContract ==
    [][cellOp' = "try_borrow_mut" =>
         /\ refState = Unshared =>
              refState' = Exclusive /\ cellRet' = "Some" /\ OneNewToken("RefMut")
         /\ refState # Unshared =>
              refState' = refState /\ cellRet' = "None" /\ tok' = tok]_vars

\* C7, its case: try_borrow_mut() was called while two read tokens are live
\* and returned None; the state is still Shared(2).
TryBorrowMutRefused ==
    /\ cellOp = "try_borrow_mut"
    /\ cellRet = "None"
    /\ refState = Shared(2)
    /\ Cardinality(Readers) = 2

\* C8: borrow_mut() panics "Already borrowed" exactly when the state is not
\* Unshared, which is exactly when a token is live, and borrow() panics
\* "Already exclusively borrowed" exactly when the state is Exclusive; a
\* panic changes nothing, and otherwise they grant what try_borrow_mut() and
\* try_borrow() grant.
BorrowPanicsContract ==
    [][/\ cellOp' = "borrow_mut" =>
            /\ (cellRet' = PanicBorrowMut) <=> (refState # Unshared)
            /\ (refState # Unshared) <=> (Readers \cup Writers # {})
            /\ refState # Unshared => refState' = refState /\ tok' = tok
            /\ refState = Unshared =>
                 refState' = Exclusive /\ cellRet' = "Some" /\ OneNewToken("RefMut")
       /\ cellOp' = "borrow" =>
            /\ (cellRet' = PanicBorrow) <=> (refState = Exclusive)
            /\ (refState = Exclusive) <=> (Writers # {})
            /\ refState = Exclusive => refState' = refState /\ tok' = tok
            /\ refState # Exclusive =>
                 /\ refState' = Shared(IF refState = Unshared THEN 1 ELSE refState.n + 1)
                 /\ cellRet' = "Some"
                 /\ OneNewToken("Ref")]_vars

\* C8, its case: borrow() was called while a write token is live and
\* panicked.
BorrowPanicked ==
    /\ cellOp = "borrow"
    /\ cellRet = PanicBorrow
    /\ refState = Exclusive
    /\ Writers # {}

\* C9: whenever no token of a RefCell is live the state is Unshared, so that
\* borrow_mut() and borrow() succeed, whatever grants and releases led there.
CellIdleIsUnshared ==
    Readers \cup Writers = {} =>
        /\ refState = Unshared
        /\ BorrowMutState(refState).ret = "Some"
        /\ \A checks \in BOOLEAN : BorrowState(refState, checks).ret = "Some"

\* C9, its case: the last of the read tokens granted was just dropped.
CellLastReaderLeft ==
    /\ cellOp = "drop_ref"
    /\ cellRet = "unit"
    /\ Readers \cup Writers = {}

\* C10, in every step: the value changes only in a write through a live
\* write token.
CellValueFrame ==
    cellValue' # cellValue => cellOp' = "deref_mut" /\ Writers # {}

\* C10, in every state: what a live read token has read is the value now
\* stored, so all live read tokens have read the same value, the one last
\* written.
CellReadersAgree ==
    \A t \in Readers : tokObs[t] # CellNoObs => tokObs[t] = cellValue

\* C10: the value of a RefCell changes only through a live write token, and
\* the read tokens see the value last written.
CellValueOnlyWritten == [](CellReadersAgree) /\ [][CellValueFrame]_vars

\* C10, its case: the doctest's RefCell::new([1, 2, 3]), after exclusive[0] = 5
\* and the write token's release, read as [5, 2, 3] through two read tokens.
CellDoctestRead ==
    /\ cellValue = <<5, 2, 3>>
    /\ Writers = {}
    /\ Cardinality({t \in Readers : tokObs[t] = <<5, 2, 3>>}) >= 2

\* The value handed to the buffer last, of those in S.
Latest(S) == CHOOSE x \in S : \A y \in S : y <= x

\* The view holds the values of S, the one pushed first at index 0.
IsStackOf(view, S) ==
    /\ {view[k] : k \in 1 .. Len(view)} = S
    /\ \A j, k \in 1 .. Len(view) : j < k => view[j] < view[k]

\* C11, in every step: pop returns the value pushed last of those not yet
\* popped; with none left, len is 0 and pop returns None and changes
\* neither len nor cap nor the contents.
StackPop ==
    vecOp' = "pop" =>
        /\ vecLive # {} =>
             /\ vecRet' = Ret("Some", Latest(vecLive))
             /\ vecLive' = vecLive \ {Latest(vecLive)}
        /\ vecLive = {} =>
             /\ vecBuf.len = 0
             /\ vecRet'.kind = "None"
             /\ vecBuf' = vecBuf

\* C11: a Vec that is pushed to and popped from hands the values back in the
\* reverse of the order they were pushed in, and None when it is empty.
StackDiscipline ==
    /\ [](vecStatus = "live" => IsStackOf(VecView(vecBuf), vecLive))
    /\ [][StackPop]_vars

\* C11, its case: values were pushed, all of them popped, and one more pop
\* returned None.
StackPoppedEmpty ==
    /\ vecOp = "pop"
    /\ vecRet.kind = "None"
    /\ vecNext > 2
    /\ vecBuf.len = 0
    /\ vecBuf.cap >= 2

\* The elements of sequence q without the one at position p (from 1).
Without(q, p) == [k \in 1 .. Len(q) - 1 |-> IF k < p THEN q[k] ELSE q[k + 1]]

\* The call made in this step returned to its caller: the allocator did not
\* fail, which aborts the process.
VecReturned == vecRet'.kind # "abort"

\* C12: insert(i, v) with i <= len yields a buffer of length len + 1 with v
\* at i, the elements before i where they were and those from i on one slot
\* further, in the same order, also when the insert grows the buffer.
InsertShifts ==
    [][(vecOp' = "insert" /\ vecArg'.index <= vecBuf.len /\ VecReturned) =>
         LET i == vecArg'.index
             old == VecView(vecBuf)
             new == VecView(vecBuf') IN
           /\ vecRet'.kind = "unit"
           /\ vecBuf'.len = vecBuf.len + 1
           /\ Len(new) = Len(old) + 1
           /\ new[i + 1] = vecArg'.elem
           /\ \A k \in 1 .. i : new[k] = old[k]
           /\ \A k \in i + 1 .. Len(old) : new[k + 1] = old[k]]_vars

\* C12, its case: the third value was inserted at index 1 of a full buffer
\* of two, which grew it to four slots.
InsertGrewAndShifted ==
    /\ vecOp = "insert"
    /\ vecRet.kind = "unit"
    /\ vecArg = [index |-> 1, elem |-> 3]
    /\ vecNext = 4
    /\ vecBuf.len = 3
    /\ vecBuf.cap = 4

\* C13: remove(i) with i < len returns the value at i, leaves the elements
\* before i where they were, moves those after i one slot down in the same
\* order, decrements len and leaves cap as it was.
RemoveShifts ==
    [][(vecOp' = "remove" /\ vecArg'.index < vecBuf.len) =>
         LET i == vecArg'.index
             old == VecView(vecBuf)
             new == VecView(vecBuf') IN
           /\ vecRet' = Ret("value", old[i + 1])
           /\ vecBuf'.len = vecBuf.len - 1
           /\ vecBuf'.cap = vecBuf.cap
           /\ new = Without(old, i + 1)
           /\ \A k \in 1 .. i : new[k] = old[k]
           /\ \A k \in i + 2 .. Len(old) : new[k - 1] = old[k]]_vars

\* C13, its case: the element at index 1 of four was removed, two elements
\* behind it.
RemovedFromMiddle ==
    /\ vecOp = "remove"
    /\ vecRet.kind = "value"
    /\ vecArg.index = 1
    /\ vecBuf.len = 3

\* C14: insert with index > len and remove with index >= len panic "index
\* out of bounds" with the buffer as it was: len, cap and the elements
\* unchanged, nothing grown; insert at index = len does what push does.
OutOfBoundsPanics ==
    [][/\ (vecOp' = "insert" /\ vecArg'.index > vecBuf.len) =>
            vecRet'.kind = PanicIndex /\ vecBuf' = vecBuf /\ vecLive' = vecLive
       /\ (vecOp' = "remove" /\ vecArg'.index >= vecBuf.len) =>
            vecRet'.kind = PanicIndex /\ vecBuf' = vecBuf /\ vecLive' = vecLive
       /\ (vecOp' = "insert" /\ vecArg'.index = vecBuf.len) =>
            \E ok \in BOOLEAN :
               LET r == VecPushState(vecBuf, vecArg'.elem, ok) IN
                 vecBuf' = r.buf /\ vecRet' = r.ret]_vars

\* C14, its case: insert was called on a full buffer with an index beyond
\* len and panicked.
InsertPanickedWhenFull ==
    /\ vecOp = "insert"
    /\ vecRet.kind = PanicIndex
    /\ vecBuf.len = vecBuf.cap
    /\ vecBuf.cap >= 2

\* The log of a destruction that drops the values of view in the order given
\* and then releases the allocation if cap > 0.
DropLogOf(view, cap) ==
    [k \in 1 .. Len(view) |-> <<"drop", view[k]>>]
        \o (IF cap > 0 THEN << <<"dealloc", cap>> >> ELSE <<>>)

Reverse(q) == [k \in 1 .. Len(q) |-> q[Len(q) - k + 1]]

\* C15, as claimed: the destruction of a Vec drops its len values from index
\* 0 up to index len - 1, each once, and then releases the allocation, which
\* it does if and only if cap > 0.
DropInIndexOrder ==
    [][vecOp' = "drop" => vecLog' = DropLogOf(VecView(vecBuf), vecBuf.cap)]_vars

\* C15, as amended: the destruction of a Vec drops its len values from index
\* len - 1 down to index 0, each once, and then releases the allocation,
\* which it does if and only if cap > 0.
DropInReverseOrder ==
    [][vecOp' = "drop" =>
         /\ vecLog' = DropLogOf(Reverse(VecView(vecBuf)), vecBuf.cap)
         /\ vecLive' = {}
         /\ vecBuf'.alloc = FALSE]_vars

\* C15, its case: a Vec of three values was destroyed.
DroppedThree ==
    /\ vecStatus = "dropped"
    /\ Len(vecLog) = 4
    /\ vecLog[4][1] = "dealloc"

IsPowerOfTwo(n) == \E e \in 0 .. 15 : n = 2 ^ e

\* C19: for a Vec not yet destroyed, len <= cap, cap is 0 or a power of two,
\* cap is 0 exactly when there is no allocation, and the values the Vec
\* holds are exactly those of the slots [0, len), which the view exposes.
VecShape ==
    vecStatus = "live" =>
        /\ vecBuf.len <= vecBuf.cap
        /\ vecBuf.cap = 0 \/ IsPowerOfTwo(vecBuf.cap)
        /\ (vecBuf.cap = 0) <=> ~vecBuf.alloc
        /\ vecBuf.cap = 0 => vecBuf.len = 0
        /\ Len(vecBuf.mem) = vecBuf.cap
        /\ Len(VecView(vecBuf)) = vecBuf.len
        /\ {VecView(vecBuf)[k] : k \in 1 .. vecBuf.len} = vecLive
        /\ Cardinality(vecLive) = vecBuf.len
        /\ Uninit \notin vecLive

\* C19, its case: a buffer grown to four slots, with elements inserted and
\* removed, holds two.
VecHalfFull ==
    /\ vecStatus = "live"
    /\ vecOp = "remove"
    /\ vecRet.kind = "value"
    /\ vecBuf.cap = 4
    /\ vecBuf.len = 2

\* C20: cap changes only in a push or insert called with len = cap, from 0
\* to 1 or from cap to cap * 2, the elements kept in order; pop and remove
\* leave cap alone, and cap never decreases.
CapGrowsOnlyWhenFull ==
    [][/\ vecBuf'.cap # vecBuf.cap =>
            /\ vecOp' \in {"push", "insert"}
            /\ vecBuf.len = vecBuf.cap
            /\ vecBuf'.cap = IF vecBuf.cap = 0 THEN 1 ELSE vecBuf.cap * 2
            /\ vecOp' = "push" =>
                 SubSeq(VecView(vecBuf'), 1, vecBuf.len) = VecView(vecBuf)
            /\ vecOp' = "insert" =>
                 Without(VecView(vecBuf'), vecArg'.index + 1) = VecView(vecBuf)
       /\ (vecOp' \in {"push", "insert"} /\ vecRet'.kind = "unit"
             /\ vecBuf.len = vecBuf.cap) => vecBuf'.cap # vecBuf.cap
       /\ vecOp' \in {"pop", "remove"} => vecBuf'.cap = vecBuf.cap
       /\ vecBuf'.cap >= vecBuf.cap]_vars

\* C20, its case: the third value was pushed to a full buffer of two, which
\* grew it to four slots.
PushGrewToFour ==
    /\ vecOp = "push"
    /\ vecRet.kind = "unit"
    /\ vecNext = 4
    /\ vecBuf.len = 3
    /\ vecBuf.cap = 4

\* C16: a clone of an Rc whose count is the maximum of usize panics and
\* a decrement of a count of 0 panics, and neither wraps: the count stays
\* what it was.
RcCountChecked ==
    [][rcVars' # rcVars =>
         /\ (rcOp' \in {"clone", "increment"} /\ rcCount = UsizeMax) =>
                rcPanic' /\ rcCount' = rcCount /\ rcH' = rcH
         /\ (rcOp' \in {"drop", "decrement"} /\ rcCount = 0) =>
                rcPanic' /\ rcCount' = rcCount
         /\ ~(rcCount = UsizeMax /\ rcCount' = 0)
         /\ ~(rcCount = 0 /\ rcCount' = UsizeMax)]_vars

\* C16, its case: clone was called at the maximum count and panicked.
RcCloneOverflown ==
    /\ rcOp = "clone"
    /\ rcPanic
    /\ rcCount = UsizeMax

\* C17: the count of an Arc does not wrap: no step takes it from the maximum
\* of usize to 0, as a clone that failed would not, nor from 0 to the
\* maximum, as a decrement that failed would not.
ArcCountChecked ==
    [][/\ ~(arcCount = UsizeMax /\ arcCount' = 0)
       /\ ~(arcCount = 0 /\ arcCount' = UsizeMax)]_vars

\* C18: the state of a RefCell agrees with its live tokens: Unshared exactly
\* when there is none, Exclusive exactly when there is one write token and
\* no read token, Shared(n) exactly when there are n >= 1 read tokens and no
\* write token; Shared(0) is never stored, and the drop of a read token
\* never runs into its unreachable!() arm.
CellStateAgrees ==
    /\ refState = Unshared <=> Readers \cup Writers = {}
    /\ refState = Exclusive <=> (Cardinality(Writers) = 1 /\ Readers = {})
    /\ refState.tag = "Shared" <=> (Readers # {} /\ Writers = {})
    /\ refState.tag = "Shared" => refState = Shared(Cardinality(Readers))
    /\ refState # Shared(0)
    /\ cellRet # PanicUnreachable

\* C18, its case: one of three read tokens was dropped, the state counts
\* the two that are left.
CellCountsReaders ==
    /\ cellOp = "drop_ref"
    /\ cellRet = "unit"
    /\ Cardinality(Readers) = 2
    /\ refState = Shared(2)

\* C21: in every interleaving of concurrent drops of an Arc, the decrement
\* and the re-read of the count that a dropping handle makes happen while
\* the control block is allocated: no drop reads the count of a block that
\* was already freed.
ArcDropReadsLiveBlock ==
    [][\A h \in ArcHandles :
         /\ (arcH[h] = "live" /\ arcH'[h] = "dec") => arcFrees = 0
         /\ (arcH[h] = "dec" /\ arcH'[h] \in {"zero", "done"}) => arcFrees = 0]_vars

\* The values a destruction with log q dropped, in order.
DroppedIn(q) ==
    LET at == {k \in 1 .. Len(q) : q[k][1] = "drop"} IN
    [k \in 1 .. Cardinality(at) |-> q[k][2]]

IsInjective(q) == \A j, k \in 1 .. Len(q) : q[j] = q[k] => j = k

\* C22: every value handed to push or insert leaves the Vec exactly once: a
\* pop or remove returns a value the Vec held and holds no more, the
\* destructor drops each value the Vec then holds once and no other, so
\* that none is left, and after the shift of an insert or remove the slots
\* [0, len) hold each value of the Vec once and no value that was moved out.
EveryValueLeavesOnce ==
    [][/\ (vecOp' \in {"pop", "remove"} /\ vecRet'.kind \in {"Some", "value"}) =>
            /\ vecRet'.val # Uninit
            /\ vecRet'.val \in vecLive
            /\ vecLive' = vecLive \ {vecRet'.val}
            /\ \A k \in 1 .. vecBuf'.len : VecView(vecBuf')[k] # vecRet'.val
       /\ vecOp' = "drop" =>
            LET d == DroppedIn(vecLog') IN
              /\ \A k \in 1 .. Len(vecLog') - 1 : vecLog'[k][1] = "drop"
              /\ IsInjective(d)
              /\ {d[k] : k \in 1 .. Len(d)} = vecLive
              /\ vecLive' = {}
       /\ vecOp' \in {"push", "pop", "insert", "remove"} =>
            /\ IsInjective(VecView(vecBuf'))
            /\ {VecView(vecBuf')[k] : k \in 1 .. vecBuf'.len} = vecLive']_vars

\* C22, its case: of three values handed to the Vec two were returned to
\* the caller and the destructor dropped the third.
DroppedTheOneLeft ==
    /\ vecStatus = "dropped"
    /\ vecNext = 4
    /\ Len(DroppedIn(vecLog)) = 1
    /\ vecLive = {}

====
